---------------------------- MODULE Spec2Model ----------------------------
(***************************************************************************)
(* State-machine model of src/fpga/firmware/main.c: the bare-metal         *)
(* firmware that sends a greeting over a memory-mapped UART and then       *)
(* steps a 4-bit LED pattern forever.                                      *)
(*                                                                         *)
(* One action per statement of the C source; pc holds the position of the  *)
(* single flow of control, named <function>_<source line>.                 *)
(*                                                                         *)
(* A uint32_t is held as the record [hi, lo] of its two 16-bit halves,     *)
(* so that the whole 32-bit range (up to 2^32-1) is representable.         *)
(***************************************************************************)
EXTENDS Integers, Sequences, FiniteSets

VARIABLES
    pc,           \* position of the flow of control
    ra,           \* position the running top-level callee returns to
    charSigned,   \* whether plain char is signed on the build's ABI
    str,          \* the bytes of memory s points into (NUL-terminated)
    s,            \* uart_puts: the pointer s, as an index into str
    c,            \* uart_putc: the parameter c, as its byte
    pattern,      \* main: uint8_t pattern
    count,        \* delay: volatile uint32_t count
    GPIO_LED,     \* content of the LED register at 0x80000000
    UART_TX,      \* content of the data register at 0x80000004
    UART_STATUS,  \* the value the latest read of 0x80000008 returned
    txHist,       \* every word written to UART_TX, in order
    ledHist,      \* the first MaxLedWrites values written to GPIO_LED
    prevPat,      \* pattern at the latest GPIO_LED write (NoPat: none yet)
    reads,        \* status reads of the current uart_putc call (saturating)
    idleSeen,     \* a read of the current uart_putc call had bit 0 clear
    everBusy,     \* some status read since program start had bit 0 set
    txAtEntry,    \* Len(txHist) when the current uart_putc call was entered
    delayArg,     \* argument of the current delay call
    decs,         \* decrements of count in the current delay call
    iters,        \* executions of the loop body in the current delay call
    busyReads,    \* reads of the current uart_putc call with bit 0 set (saturating)
    ledSince,     \* GPIO_LED writes since the latest call of delay
    incSince,     \* increments of pattern since the latest call of delay
    hwOn,         \* the UART transmitter drives the status register
    hwBusy,       \* transmitter: a byte is being sent (status bit 0)
    hwShift,      \* transmitter: the byte being sent
    hwSent,       \* transmitter: the bytes fully sent, in order
    stuck         \* fault: from now on every status read has bit 0 set

prog  == <<pc, ra, charSigned, str, s, c, pattern, count>>
regs  == <<GPIO_LED, UART_TX, UART_STATUS>>
obsTx == <<txHist, reads, busyReads, idleSeen, everBusy, txAtEntry>>
obsLd == <<ledHist, prevPat, ledSince, incSince>>
obsDl == <<delayArg, decs, iters>>
env   == <<hwOn, hwBusy, hwShift, hwSent, stuck>>
vars  == <<prog, regs, obsTx, obsLd, obsDl, env>>

---------------------------------------------------------------------------
(* Bounds of the model *)

\* status reads counted per uart_putc call before the count saturates
MaxPolls == 3
\* LED writes recorded in ledHist: one 256-step cycle plus one
MaxLedWrites == 257
\* the iteration count main passes to delay; stands for the calibration
\* constant 5000000 of line 44, scaled down (delay's loop is uniform in it)
DelayCalib == 2
\* delay harness: arguments 0..MaxDelayArg, and one beyond 16 bits
MaxDelayArg == 15
BigDelayArg == 65537
\* uart_puts harness: length of the buffers before the closing NUL
MaxStrLen == 3

NoPat == 0 - 1

---------------------------------------------------------------------------
(* 32-bit words *)

U32 == [hi : 0..65535, lo : 0..65535]

ToU32(n) == [hi |-> n \div 65536, lo |-> n % 65536]

LowByte(w) == w.lo % 256

IsZero32(w) == w.hi = 0 /\ w.lo = 0

\* count-- on a uint32_t: minus one modulo 2^32
Dec32(w) ==
    IF w.lo > 0 THEN [hi |-> w.hi, lo |-> w.lo - 1]
    ELSE IF w.hi > 0 THEN [hi |-> w.hi - 1, lo |-> 65535]
    ELSE [hi |-> 65535, lo |-> 65535]

---------------------------------------------------------------------------
(* Expressions of the source *)

\* the string literal of line 38 as it lies in memory, closing NUL included
GreetingNoLF ==
    << 72, 101, 108, 108, 111, 44, 32, 65, 114, 116, 121, 32, 65, 55, 33,
       13, 0 >>

Greeting ==
    << 72, 101, 108, 108, 111, 44, 32, 65, 114, 116, 121, 32, 65, 55, 33,
       13, 10, 0 >>

\* line 19: UART_STATUS & 1
TxBusyInverted(v) == v % 2 = 0

TxBusyWholeWord(v) == v = 1

TxBusy(v) == v % 2 = 1

\* line 21: (uint32_t)c, for the byte ch of c
TxWord7Bit(ch, signed) == [hi |-> 0, lo |-> ch % 128]

TxWord(ch, signed) ==
    IF signed /\ ch >= 128
    THEN [hi |-> 65535, lo |-> 65280 + ch]
    ELSE [hi |-> 0, lo |-> ch]

\* line 26: the loop condition *s
PutsStopsAtCR(ch) == ch # 0 /\ ch # 13

PutsGoesOn(ch) == ch # 0

\* line 42: pattern & 0x0F
LedValueUnmasked(p) == p

LedValuePostInc(p) == (p + 1) % 16

LedValue(p) == p % 16

\* line 43: pattern++ on a uint8_t
IncPatternNoWrap(p) == p + 1

IncPattern(p) == (p + 1) % 256

\* line 32: the loop condition, on the value count had before the decrement
DelayGoesOnPre(old) == ~(old.hi = 0 /\ old.lo <= 1)

DelayGoesOn(old) == ~IsZero32(old)

\* line 41: where the loop of main starts over
LoopHeadAtGreeting == "main_38"

LoopHeadSpins == "main_41"

LoopHead == "main_42"

\* line 38/40: where uart_puts returns to in main
AfterGreeting == "main_40"

Min(a, b) == IF a < b THEN a ELSE b

---------------------------------------------------------------------------
(* The UART transmitter behind the registers *)

\* the values a read of the status register may return: bit 0 is the
\* transmitter's busy bit where the transmitter is modelled, set where the
\* register is stuck, and anything otherwise; bit 1 is never meaningful
StatusValues ==
    IF hwOn THEN (IF hwBusy THEN {1, 3} ELSE {0, 2})
    ELSE IF stuck THEN {1, 3}
    ELSE 0..3

\* a write of byte b to the data register: an idle transmitter starts
\* sending it; a busy one either drops it or sends it in place of the
\* byte it was sending
HwAccept(b) ==
    IF ~hwOn THEN UNCHANGED <<hwBusy, hwShift, hwSent>>
    ELSE /\ hwBusy' = TRUE
         /\ hwSent' = hwSent
         /\ IF hwBusy THEN hwShift' \in {hwShift, b} ELSE hwShift' = b

\* the transmitter has sent its byte and clears the busy bit on its own
hw_tx_done ==
    /\ hwOn
    /\ hwBusy
    /\ hwBusy' = FALSE
    /\ hwSent' = Append(hwSent, hwShift)
    /\ UNCHANGED <<prog, regs, obsTx, obsLd, obsDl, hwOn, hwShift, stuck>>

\* the status register starts to read busy for good
hw_fault ==
    /\ ~hwOn
    /\ ~stuck
    /\ stuck' = TRUE
    /\ UNCHANGED <<prog, regs, obsTx, obsLd, obsDl, hwOn, hwBusy, hwShift, hwSent>>

---------------------------------------------------------------------------
(* uart_putc, lines 16-22 *)

\* line 19: one poll of the status register; any value may be read
uart_putc_poll ==
    /\ pc = "putc_19"
    /\ \E v \in StatusValues :
        /\ UART_STATUS' = v
        /\ idleSeen' = (idleSeen \/ v % 2 = 0)
        /\ everBusy' = (everBusy \/ v % 2 = 1)
        /\ busyReads' = Min(busyReads + (v % 2), MaxPolls)
        /\ pc' = IF TxBusy(v) THEN "putc_19" ELSE "putc_21"
    /\ reads' = Min(reads + 1, MaxPolls)
    /\ UNCHANGED <<ra, charSigned, str, s, c, pattern, count>>
    /\ UNCHANGED <<GPIO_LED, UART_TX, txHist, txAtEntry, obsLd, obsDl, env>>

\* line 21: the write of the data register, and the return to uart_puts
uart_putc_write ==
    /\ pc = "putc_21"
    /\ UART_TX' = TxWord(c, charSigned)
    /\ txHist' = Append(txHist, TxWord(c, charSigned))
    /\ pc' = "puts_26"
    /\ HwAccept(LowByte(TxWord(c, charSigned)))
    /\ UNCHANGED <<ra, charSigned, str, s, c, pattern, count>>
    /\ UNCHANGED <<GPIO_LED, UART_STATUS, reads, busyReads, idleSeen, everBusy>>
    /\ UNCHANGED <<txAtEntry, obsLd, obsDl, hwOn, stuck>>

(* uart_puts, lines 24-28 *)

\* lines 26-27: test *s; either call uart_putc(*s++) or return
uart_puts ==
    /\ pc = "puts_26"
    /\ IF PutsGoesOn(str[s])
       THEN /\ c' = str[s]
            /\ s' = s + 1
            /\ pc' = "putc_19"
            /\ reads' = 0
            /\ busyReads' = 0
            /\ idleSeen' = FALSE
            /\ txAtEntry' = Len(txHist)
       ELSE /\ pc' = ra
            /\ UNCHANGED <<c, s, reads, busyReads, idleSeen, txAtEntry>>
    /\ UNCHANGED <<ra, charSigned, str, pattern, count>>
    /\ UNCHANGED <<regs, txHist, everBusy, obsLd, obsDl, env>>

(* delay, lines 30-34 *)

\* line 32: count-- is read, decremented and tested in one step
delay ==
    /\ pc = "delay_32"
    /\ count' = Dec32(count)
    /\ decs' = decs + 1
    /\ IF DelayGoesOn(count)
       THEN /\ iters' = iters + 1
            /\ pc' = "delay_32"
       ELSE /\ iters' = iters
            /\ pc' = ra
    /\ UNCHANGED <<ra, charSigned, str, s, c, pattern>>
    /\ UNCHANGED <<regs, obsTx, obsLd, delayArg, env>>

(* main, lines 36-46 *)

\* line 38: the call uart_puts("Hello, Arty A7!\r\n")
main_uart_puts ==
    /\ pc = "main_38"
    /\ str' = Greeting
    /\ s' = 1
    /\ ra' = AfterGreeting
    /\ pc' = "puts_26"
    /\ UNCHANGED <<charSigned, c, pattern, count>>
    /\ UNCHANGED <<regs, obsTx, obsLd, obsDl, env>>

\* line 40: uint8_t pattern = 0
main_pattern ==
    /\ pc = "main_40"
    /\ pattern' = 0
    /\ pc' = "main_42"
    /\ UNCHANGED <<ra, charSigned, str, s, c, count>>
    /\ UNCHANGED <<regs, obsTx, obsLd, obsDl, env>>

\* line 42: GPIO_LED = pattern & 0x0F
main_led ==
    /\ pc = "main_42"
    /\ GPIO_LED' = LedValue(pattern)
    /\ ledHist' = IF Len(ledHist) < MaxLedWrites
                  THEN Append(ledHist, LedValue(pattern))
                  ELSE ledHist
    /\ prevPat' = pattern
    /\ ledSince' = ledSince + 1
    /\ pc' = "main_43"
    /\ UNCHANGED <<ra, charSigned, str, s, c, pattern, count>>
    /\ UNCHANGED <<UART_TX, UART_STATUS, obsTx, incSince, obsDl, env>>

\* line 43: pattern++
main_inc ==
    /\ pc = "main_43"
    /\ pattern' = IncPattern(pattern)
    /\ incSince' = incSince + 1
    /\ pc' = "main_44"
    /\ UNCHANGED <<ra, charSigned, str, s, c, count>>
    /\ UNCHANGED <<regs, obsTx, ledHist, prevPat, ledSince, obsDl, env>>

\* line 44: the call delay(5000000)
main_delay ==
    /\ pc = "main_44"
    /\ count' = ToU32(DelayCalib)
    /\ delayArg' = DelayCalib
    /\ decs' = 0
    /\ iters' = 0
    /\ ledSince' = 0
    /\ incSince' = 0
    /\ ra' = "main_41"
    /\ pc' = "delay_32"
    /\ UNCHANGED <<charSigned, str, s, c, pattern>>
    /\ UNCHANGED <<regs, obsTx, ledHist, prevPat, env>>

\* lines 41/45: while (1) starts the next iteration
main_loop ==
    /\ pc = "main_41"
    /\ pc' = LoopHead
    /\ UNCHANGED <<ra, charSigned, str, s, c, pattern, count>>
    /\ UNCHANGED <<regs, obsTx, obsLd, obsDl, env>>

---------------------------------------------------------------------------
(* Specifications *)

\* what the instrumentation holds before anything ran; the address space
\* is zero-initialised
InitObs ==
    /\ GPIO_LED = 0
    /\ UART_TX = ToU32(0)
    /\ UART_STATUS = 0
    /\ txHist = <<>>
    /\ ledHist = <<>>
    /\ prevPat = NoPat
    /\ reads = 0
    /\ idleSeen = FALSE
    /\ everBusy = FALSE
    /\ txAtEntry = 0
    /\ delayArg = 0
    /\ decs = 0
    /\ iters = 0
    /\ busyReads = 0
    /\ ledSince = 0
    /\ incSince = 0

\* no transmitter modelled and no fault: a status read returns any value
InitEnv ==
    /\ hwOn = FALSE
    /\ hwBusy = FALSE
    /\ hwShift = 0
    /\ hwSent = <<>>
    /\ stuck = FALSE

\* the whole program, from the entry of main; pattern's stack slot holds
\* an indeterminate value until line 40 initialises it
MainEntry ==
    /\ pc = "main_38"
    /\ ra = "reset"
    /\ charSigned \in BOOLEAN
    /\ str = <<0>>
    /\ s = 1
    /\ c = 0
    /\ pattern \in {0, 170}
    /\ count = ToU32(0)

Init ==
    /\ MainEntry
    /\ InitObs
    /\ InitEnv

Next ==
    \/ main_uart_puts
    \/ uart_puts
    \/ uart_putc_poll
    \/ uart_putc_write
    \/ main_pattern
    \/ main_led
    \/ main_inc
    \/ main_delay
    \/ delay
    \/ main_loop

Spec == Init /\ [][Next]_vars

\* the program on a processor that keeps executing, with a status register
\* that does not read busy forever: a poll that reads bit 0 clear is taken
\* eventually
IdlePoll == uart_putc_poll /\ UART_STATUS' % 2 = 0

SpecLive == Init /\ [][Next]_vars /\ WF_vars(Next) /\ WF_vars(IdlePoll)

\* uart_puts alone, called on a NUL-terminated buffer
Bytes == {0, 10, 65, 233}

RECURSIVE Buffers(_)
Buffers(n) ==
    IF n = 0 THEN {<<>>}
    ELSE {Append(b, x) : b \in Buffers(n - 1), x \in Bytes}

PutsEntry ==
    /\ pc = "puts_26"
    /\ ra = "done"
    /\ charSigned \in BOOLEAN
    /\ str \in {Append(b, 0) : b \in Buffers(MaxStrLen)}
    /\ s = 1
    /\ c = 0
    /\ pattern = 0
    /\ count = ToU32(0)

InitPuts ==
    /\ PutsEntry
    /\ InitObs
    /\ InitEnv

NextPuts ==
    \/ uart_puts
    \/ uart_putc_poll
    \/ uart_putc_write

SpecPuts == InitPuts /\ [][NextPuts]_vars

\* the program on a processor that keeps executing, with a status register
\* that may at any moment start to read busy for good
NextFault ==
    \/ Next
    \/ hw_fault

SpecFault == Init /\ [][NextFault]_vars /\ WF_vars(Next)

\* the program, and uart_puts alone, in front of the UART transmitter: the
\* status register shows the transmitter's busy bit, which a write of the
\* data register sets and the transmitter clears when the byte is sent
InitHw ==
    /\ MainEntry \/ PutsEntry
    /\ InitObs
    /\ hwOn = TRUE
    /\ hwBusy = FALSE
    /\ hwShift = 0
    /\ hwSent = <<>>
    /\ stuck = FALSE

NextHw ==
    \/ Next
    \/ hw_tx_done

SpecHw == InitHw /\ [][NextHw]_vars

\* delay alone, called with an argument n
DelayArgs == (0..MaxDelayArg) \cup {BigDelayArg}

InitDelay ==
    /\ pc = "delay_32"
    /\ ra = "done"
    /\ charSigned = FALSE
    /\ str = <<0>>
    /\ s = 1
    /\ c = 0
    /\ pattern = 0
    /\ \E n \in DelayArgs :
        /\ count = ToU32(n)
        /\ delayArg = n
    /\ GPIO_LED = 0
    /\ UART_TX = ToU32(0)
    /\ UART_STATUS = 0
    /\ txHist = <<>>
    /\ ledHist = <<>>
    /\ prevPat = NoPat
    /\ reads = 0
    /\ idleSeen = FALSE
    /\ everBusy = FALSE
    /\ txAtEntry = 0
    /\ decs = 0
    /\ iters = 0
    /\ busyReads = 0
    /\ ledSince = 0
    /\ incSince = 0
    /\ InitEnv

NextDelay == delay

SpecDelay == InitDelay /\ [][NextDelay]_vars

---------------------------------------------------------------------------
(* Properties *)

IsPrefix(a, b) == Len(a) <= Len(b) /\ a = SubSeq(b, 1, Len(a))

\* the ASCII codes of  Hello, Arty A7!  then carriage-return, line-feed
HelloBytes ==
    << 72, 101, 108, 108, 111, 44, 32, 65, 114, 116, 121, 32, 65, 55, 33 >>

ExpectedBytes == HelloBytes \o << 13, 10 >>

ExpectedWords == [i \in 1..Len(ExpectedBytes) |-> ToU32(ExpectedBytes[i])]

\* positions of main after the call of line 38 has returned
SteadyPcs == {"main_40", "main_41", "main_42", "main_43", "main_44", "delay_32"}

\* the step that writes the LED register, and the one that writes UART_TX
LedWriteStep == pc = "main_42" /\ pc' = "main_43"

TxWriteStep == Len(txHist') > Len(txHist)

C2_WriteAfterIdle ==
    [][TxWriteStep =>
        /\ reads >= 1
        /\ idleSeen
        /\ UART_STATUS % 2 = 0]_vars

C2_Witness ==
    /\ pc = "puts_26"
    /\ Len(txHist) = txAtEntry + 1
    /\ everBusy
    /\ reads = MaxPolls
    /\ UART_STATUS = 2

\* C3: while every status read of the current uart_putc call has had bit
\* 0 set, however many there were, the call is still in its poll loop
\* and has written nothing to the UART data register.
C3_BusySpins ==
    (reads >= 1 /\ ~idleSeen) =>
        /\ pc = "putc_19"
        /\ Len(txHist) = txAtEntry

C3_Witness ==
    /\ pc = "putc_19"
    /\ reads = MaxPolls
    /\ ~idleSeen
    /\ UART_STATUS = 3
    /\ Len(txHist) = txAtEntry

\* C4: every LED write stores the low 4 bits of pattern as it is at the
\* write; pattern is 0 at the first LED write, is one more modulo 256 at
\* each later write than at the write before, and never leaves 0..255.
C4_LedLowNibble ==
    [][/\ pattern' \in 0..255
       /\ LedWriteStep =>
            /\ GPIO_LED' = pattern % 16
            /\ pattern \in 0..255
            /\ prevPat = NoPat => pattern = 0
            /\ prevPat # NoPat => pattern = (prevPat + 1) % 256]_vars

C4_Witness ==
    /\ pc = "main_43"
    /\ prevPat = 0
    /\ pattern = 0
    /\ GPIO_LED = 0
    /\ Len(ledHist) = 257
    /\ ledHist[256] = 15

\* C5 as stated: with every status read idle, the first 257 LED writes
\* are the values 0, 1, 2, ..., 255, 0.
C5_Original ==
    (~everBusy /\ Len(ledHist) >= 257) =>
        SubSeq(ledHist, 1, 257) = [i \in 1..257 |-> (i - 1) % 256]

\* C5 amended: with every status read idle, the first 257 LED writes are
\* the low nibbles of 0, 1, 2, ..., 255, 0: the values 0..15 sixteen
\* times over, then 0.
C5_LedCycle ==
    /\ \A i \in 1..Len(ledHist) : i <= 257 => ledHist[i] = ((i - 1) % 256) % 16
    /\ (~everBusy /\ Len(ledHist) >= 257) =>
         SubSeq(ledHist, 1, 257) = [i \in 1..257 |-> ((i - 1) % 256) % 16]

C5_Witness ==
    /\ ~everBusy
    /\ Len(ledHist) = 257
    /\ ledHist[17] = 0
    /\ ledHist[256] = 15
    /\ ledHist[257] = 0

\* C6: once the LED register has been written, the UART data register has
\* received exactly the greeting bytes, and no later step writes it.
C6_SteadyNoUart ==
    [][ledHist # <<>> =>
        /\ txHist = ExpectedWords
        /\ txHist' = txHist
        /\ UART_TX' = UART_TX]_vars

C6_Witness ==
    /\ Len(ledHist) = 257
    /\ pc = "main_41"
    /\ everBusy
    /\ txHist = ExpectedWords

\* C7 as stated: a returned delay(n) has decremented its counter exactly
\* n times (not at all for n = 0).
C7_Original ==
    pc = "done" => decs = delayArg

\* C7 amended: a returned delay(n) has run its loop body exactly n times
\* and decremented its counter exactly n + 1 times: the test that ends
\* the loop decrements too, and leaves the counter at 2^32 - 1.
C7_DelaySteps ==
    /\ decs = iters + (IF pc = "done" THEN 1 ELSE 0)
    /\ pc = "done" =>
        /\ iters = delayArg
        /\ decs = delayArg + 1
        /\ count = [hi |-> 65535, lo |-> 65535]

C7_Witness ==
    /\ pc = "done"
    /\ delayArg = MaxDelayArg
    /\ iters = MaxDelayArg
    /\ decs = MaxDelayArg + 1

\* C8 as stated: with every status read idle, 19 words have been written
\* to the UART data register when the first LED write is about to happen.
C8_Original ==
    (~everBusy /\ pc = "main_42" /\ ledHist = <<>>) => Len(txHist) = 19

\* C8 amended: the startup stream is 17 bytes including the two
\* line-ending bytes; with every status read idle, exactly 17 words have
\* been written to the UART data register before the first LED write.
C8_SeventeenBytes ==
    [][(~everBusy /\ LedWriteStep /\ ledHist = <<>>) =>
        /\ Len(txHist) = 17
        /\ Len(txHist') = 17]_vars

C8_Witness ==
    /\ ~everBusy
    /\ pc = "main_43"
    /\ Len(ledHist) = 1
    /\ Len(txHist) = 17

\* C9: the LED register is not written before the line-feed that ends
\* the greeting has been written to the UART data register, and the
\* greeting is sent once only: the UART history is always a prefix of
\* the greeting and never grows beyond it.
C9_GreetingOnceFirst ==
    /\ IsPrefix(txHist, ExpectedWords)
    /\ (ledHist # <<>> \/ prevPat # NoPat \/ pc \in SteadyPcs) =>
        /\ txHist = ExpectedWords
        /\ LowByte(txHist[Len(txHist)]) = 10

C9_Witness ==
    /\ Len(ledHist) = 257
    /\ pc = "main_42"
    /\ pattern = 1
    /\ Len(txHist) = 17

\* the C string a buffer holds: its bytes before the first NUL
CStrLen(buf) == CHOOSE n \in 0..Len(buf) :
    /\ n < Len(buf)
    /\ buf[n + 1] = 0
    /\ \A j \in 1..n : buf[j] # 0

CStr(buf) == SubSeq(buf, 1, CStrLen(buf))

LowBytes(h) == [i \in 1..Len(h) |-> LowByte(h[i])]

\* C10: the low bytes of the words uart_puts has written are always a
\* prefix of the string it was given, and when it returns they are the
\* whole string: every character, in order, one write each, and no
\* terminator or other byte added.
C10_PutsSendsAll ==
    /\ IsPrefix(LowBytes(txHist), CStr(str))
    /\ pc = "done" => LowBytes(txHist) = CStr(str)

C10_Witness ==
    /\ pc = "done"
    /\ charSigned
    /\ everBusy
    /\ str = <<233, 0, 65, 0>>
    /\ txHist = <<[hi |-> 65535, lo |-> 65513]>>

\* C11: on a processor that keeps executing, and with a status register
\* that reads idle eventually, the greeting is completed and the steady
\* state entered; from then on the LED register is written again and
\* again; every call of delay returns to the loop; main never returns
\* and in the steady state a next step is always possible.
C11_RunsForever ==
    /\ <>(pc \in SteadyPcs /\ txHist = ExpectedWords)
    /\ []<>(pc = "main_43" /\ ledSince = 1)
    /\ (pc = "delay_32") ~> (pc = "main_41")
    /\ [](pc # "reset" /\ ra # "done")
    /\ [](pc \in SteadyPcs => ENABLED <<Next>>_vars)

C11_Witness ==
    /\ pc = "main_43"
    /\ everBusy
    /\ txHist = ExpectedWords
    /\ Len(ledHist) = MaxLedWrites
    /\ prevPat = 255
    /\ GPIO_LED = 15

\* the bytes the transmitter has sent, followed by the one it is sending
HwStream == hwSent \o (IF hwBusy THEN <<hwShift>> ELSE <<>>)

\* C12: in front of a transmitter that turns busy only on a write of the
\* data register and turns idle on its own, the data register is never
\* written while the transmitter is busy: at each write every earlier
\* byte has been sent in full, and the bytes the transmitter sends are
\* always the bytes written, in the order written, none lost or replaced.
C12_OneByteAtATime ==
    /\ [](HwStream = LowBytes(txHist))
    /\ [][TxWriteStep =>
            /\ ~hwBusy
            /\ hwSent = LowBytes(txHist)
            /\ hwBusy'
            /\ hwShift' = LowByte(UART_TX')]_vars

C12_Witness ==
    /\ hwOn
    /\ everBusy
    /\ ~hwBusy
    /\ pc = "delay_32"
    /\ hwSent = ExpectedBytes
    /\ txHist = ExpectedWords

\* the step that increments pattern, and the one that calls delay
IncStep == pc = "main_43" /\ pc' = "main_44"

DelayCallStep == pc = "main_44" /\ pc' = "delay_32"

\* C13: an iteration of the steady state is LED write, then increment,
\* then the call of delay with the calibration constant (DelayCalib here):
\* the LED write stores the low nibble of pattern as it is before the
\* increment (0 at the first write) and leaves pattern alone; the
\* increment follows exactly one LED write; the call of delay follows
\* exactly one LED write and one increment since the call before; and
\* only the increment (and the initialisation) ever changes pattern.
C13_IterationOrder ==
    [][/\ LedWriteStep =>
            /\ ledSince = 0 /\ incSince = 0
            /\ GPIO_LED' = pattern % 16
            /\ prevPat = NoPat => GPIO_LED' = 0
            /\ pattern' = pattern
       /\ IncStep =>
            /\ ledSince = 1 /\ incSince = 0
            /\ prevPat = pattern
            /\ pattern' = (pattern + 1) % 256
       /\ DelayCallStep =>
            /\ ledSince = 1 /\ incSince = 1
            /\ delayArg' = DelayCalib
            /\ count' = ToU32(DelayCalib)
            /\ pattern' = pattern
       /\ pc = "delay_32" => pattern' = pattern
       /\ pattern' # pattern => pc \in {"main_40", "main_43"}]_vars

C13_Witness ==
    /\ pc = "main_44"
    /\ ledSince = 1
    /\ incSince = 1
    /\ pattern = 2
    /\ GPIO_LED = 1
    /\ decs > 0

\* C14 as stated: in every behaviour in which the status register starts
\* to read busy for good, either only a strict prefix of the greeting is
\* ever written or the LED writes stop eventually.
C14_Original ==
    (<>stuck) =>
        \/ [](Len(txHist) < Len(ExpectedWords))
        \/ <>[](pc # "main_43")

\* C14 amended: when the status register reads busy for good and the
\* program polls it at or after that point, the program never leaves the
\* poll loop: only a strict prefix of the greeting is ever written and
\* the LED register is never written.  A fault that begins in the steady
\* state is not noticed: the greeting is complete and the LED writes go on.
C14_FaultWhilePolling ==
    /\ [](pc = "putc_19" =>
            /\ IsPrefix(txHist, ExpectedWords)
            /\ Len(txHist) < Len(ExpectedWords)
            /\ ledHist = <<>>
            /\ prevPat = NoPat)
    /\ [][(stuck /\ pc = "putc_19") =>
            /\ pc' = "putc_19"
            /\ stuck'
            /\ UART_STATUS' % 2 = 1
            /\ txHist' = txHist
            /\ ledHist' = ledHist
            /\ GPIO_LED' = GPIO_LED]_vars
    /\ (stuck /\ pc \in SteadyPcs) ~>
            (stuck /\ pc = "main_43" /\ txHist = ExpectedWords)

C14_Witness ==
    /\ stuck
    /\ pc = "putc_19"
    /\ reads = MaxPolls
    /\ busyReads = MaxPolls
    /\ UART_STATUS = 3
    /\ Len(txHist) = 5
    /\ ledHist = <<>>

\* the first n values any run writes to the LED register
LedTrace(n) == [i \in 1..n |-> ((i - 1) % 256) % 16]

\* C15: the status register is read by the poll of uart_putc alone and
\* never again once the steady state is entered, and every other position
\* of the program has a next step whatever the register does; so the LED
\* writes are one and the same sequence in every behaviour, however the
\* busy bit behaves and whenever it sticks.
C15_OnlyPollWaits ==
    /\ [](ledHist = LedTrace(Len(ledHist)))
    /\ [](pc # "putc_19" => ENABLED <<Next>>_vars)
    /\ [][pc # "putc_19" =>
            /\ UART_STATUS' = UART_STATUS
            /\ everBusy' = everBusy]_vars
    /\ [][(pc \in SteadyPcs) =>
            /\ pc' \in SteadyPcs
            /\ UART_STATUS' = UART_STATUS
            /\ reads' = reads
            /\ busyReads' = busyReads]_vars

C15_Witness ==
    /\ stuck
    /\ ~everBusy
    /\ UART_STATUS = 2
    /\ pc = "main_43"
    /\ Len(ledHist) = MaxLedWrites
    /\ prevPat = 3

\* positions inside uart_putc
PutcPcs == {"putc_19", "putc_21"}

\* C16: a call of uart_putc returns with its one write of the data
\* register, made after its last status read, which had bit 0 clear; it
\* has then read the status register once more than it has seen it busy
\* (once, when the first read is idle), each busy read being followed by
\* another read; and it never touches the LED register.
C16_OneReadOneWrite ==
    [][/\ TxWriteStep =>
            /\ pc = "putc_21" /\ pc' = "puts_26"
            /\ Len(txHist) = txAtEntry
            /\ Len(txHist') = txAtEntry + 1
            /\ UART_STATUS % 2 = 0
            /\ UART_STATUS' = UART_STATUS
            /\ reads' = reads /\ busyReads' = busyReads
            /\ reads >= 1
            /\ busyReads < MaxPolls => reads = busyReads + 1
            /\ busyReads = 0 => reads = 1
       /\ (pc = "putc_19" /\ pc' = "putc_19" /\ reads < MaxPolls) =>
            /\ UART_STATUS' % 2 = 1
            /\ reads' = reads + 1
            /\ busyReads' = busyReads + 1
       /\ (pc = "putc_19" /\ pc' = "putc_21") =>
            /\ UART_STATUS' % 2 = 0
            /\ busyReads' = busyReads
            /\ reads < MaxPolls => reads' = reads + 1 /\ reads = busyReads
       /\ (pc \in PutcPcs) =>
            /\ GPIO_LED' = GPIO_LED
            /\ ledHist' = ledHist
            /\ pc' \in PutcPcs \/ TxWriteStep]_vars

C16_Witness ==
    /\ pc = "puts_26"
    /\ Len(txHist) = txAtEntry + 1
    /\ reads = 3
    /\ busyReads = 2
    /\ UART_STATUS = 0

=============================================================================
